---- MODULE Spec2Model ----
(***************************************************************************)
(* A model of headers_predictor.ipynb: the notebook's cells from the       *)
(* reading of the dataset file to the printed accuracies, and its helper   *)
(* functions words_from_values, get_words and words_counter.  Spec and     *)
(* SpecEval start from the simplified sample (data_sampled), SpecLoad from *)
(* the lines of the file.                                                  *)
(*                                                                         *)
(* A string is the sequence of the code points of its characters, so that  *)
(* lower(), translate(), split() and the regular expressions are computed  *)
(* character by character.  Python floats are modelled as exact rationals *)
(* <<n, d>> in lowest terms (d > 0); np.nan is the pair <<0, 0>>; np.std   *)
(* is kept as the rational under the square root, [sqrt |-> variance].     *)
(***************************************************************************)
EXTENDS Integers, Sequences, FiniteSets, TLC

VARIABLES pc, error, data_sampled, df, data_headers, data_others,
          header_words, other_words, all_words, word_weights,
          test_idx, y_pred, acc, acc_fake,
          tok_pc, tok_values, tok_words, tok_rewords,
          input_lines, data_json, data_all

vars == <<pc, error, data_sampled, df, data_headers, data_others,
          header_words, other_words, all_words, word_weights,
          test_idx, y_pred, acc, acc_fake,
          tok_pc, tok_values, tok_words, tok_rewords,
          input_lines, data_json, data_all>>

pipeline_vars == <<pc, error, data_sampled, df, data_headers, data_others,
                   header_words, other_words, all_words, word_weights,
                   test_idx, y_pred, acc, acc_fake>>

tok_vars == <<tok_pc, tok_values, tok_words, tok_rewords>>

\* the lines of the dataset file, data (cell 3) and data_all (cell 4)
load_vars == <<input_lines, data_json, data_all>>

-----------------------------------------------------------------------------
(* Characters *)

\* A character is its code point, a string the sequence of its code points.
\* The tables below are those of Python 3.11 (Unicode 14.0) over all code
\* points, U+0000 to U+10FFFF: a character in no table is lowered to itself
\* and is no white space, no digit and no word character.

\* the printable ASCII characters, U+0020 to U+007E, in the order of their
\* code points (the grave accent by its name)
ASCII ==
  <<" ", "!", "\"", "#", "$", "%", "&", "'", "(", ")", "*", "+", ",", "-",
    ".", "/", "0", "1", "2", "3", "4", "5", "6", "7", "8", "9", ":", ";",
    "<", "=", ">", "?", "@", "A", "B", "C", "D", "E", "F", "G", "H", "I",
    "J", "K", "L", "M", "N", "O", "P", "Q", "R", "S", "T", "U", "V", "W",
    "X", "Y", "Z", "[", "\\", "]", "^", "_", "U+0060", "a", "b", "c", "d", "e",
    "f", "g", "h", "i", "j", "k", "l", "m", "n", "o", "p", "q", "r", "s",
    "t", "u", "v", "w", "x", "y", "z", "{", "|", "}", "~">>

\* ord(c) of a printable ASCII character
Ord == [c \in {ASCII[i] : i \in DOMAIN ASCII} |->
          31 + CHOOSE i \in DOMAIN ASCII : ASCII[i] = c]

\* the string written with printable ASCII characters
Str(s) == [i \in 1..Len(s) |-> Ord[s[i]]]

\* the characters str.split() with no argument splits on (str.isspace())
WHITESPACE ==
  UNION {
    9..13, 28..32, 133..133, 160..160, 5760..5760, 8192..8202, 8232..8233,
    8239..8239, 8287..8287, 12288..12288 }

\* the characters of the regular expressions' \d (the decimal digits, Nd)
DIGITS ==
  UNION {
    48..57, 1632..1641, 1776..1785, 1984..1993, 2406..2415, 2534..2543,
    2662..2671, 2790..2799, 2918..2927, 3046..3055, 3174..3183, 3302..3311,
    3430..3439, 3558..3567, 3664..3673, 3792..3801, 3872..3881, 4160..4169,
    4240..4249, 6112..6121, 6160..6169, 6470..6479, 6608..6617, 6784..6793,
    6800..6809, 6992..7001, 7088..7097, 7232..7241, 7248..7257, 42528..42537,
    43216..43225, 43264..43273, 43472..43481, 43504..43513, 43600..43609,
    44016..44025, 65296..65305, 66720..66729, 68912..68921, 69734..69743,
    69872..69881, 69942..69951, 70096..70105, 70384..70393, 70736..70745,
    70864..70873, 71248..71257, 71360..71369, 71472..71481, 71904..71913,
    72016..72025, 72784..72793, 73040..73049, 73120..73129, 92768..92777,
    92864..92873, 93008..93017, 120782..120831, 123200..123209,
    123632..123641, 125264..125273, 130032..130041 }

\* the characters str.isdigit() accepts
ISDIGIT ==
  UNION {
    48..57, 178..179, 185..185, 1632..1641, 1776..1785, 1984..1993,
    2406..2415, 2534..2543, 2662..2671, 2790..2799, 2918..2927, 3046..3055,
    3174..3183, 3302..3311, 3430..3439, 3558..3567, 3664..3673, 3792..3801,
    3872..3881, 4160..4169, 4240..4249, 4969..4977, 6112..6121, 6160..6169,
    6470..6479, 6608..6618, 6784..6793, 6800..6809, 6992..7001, 7088..7097,
    7232..7241, 7248..7257, 8304..8304, 8308..8313, 8320..8329, 9312..9320,
    9332..9340, 9352..9360, 9450..9450, 9461..9469, 9471..9471, 10102..10110,
    10112..10120, 10122..10130, 42528..42537, 43216..43225, 43264..43273,
    43472..43481, 43504..43513, 43600..43609, 44016..44025, 65296..65305,
    66720..66729, 68160..68163, 68912..68921, 69216..69224, 69714..69722,
    69734..69743, 69872..69881, 69942..69951, 70096..70105, 70384..70393,
    70736..70745, 70864..70873, 71248..71257, 71360..71369, 71472..71481,
    71904..71913, 72016..72025, 72784..72793, 73040..73049, 73120..73129,
    92768..92777, 92864..92873, 93008..93017, 120782..120831, 123200..123209,
    123632..123641, 125264..125273, 127232..127242, 130032..130041 }

\* the characters of the regular expressions' \w
WORDCHARS ==
  UNION {
    48..57, 65..90, 95..95, 97..122, 170..170, 178..179, 181..181, 185..186,
    188..190, 192..214, 216..246, 248..705, 710..721, 736..740, 748..748,
    750..750, 880..884, 886..887, 890..893, 895..895, 902..902, 904..906,
    908..908, 910..929, 931..1013, 1015..1153, 1162..1327, 1329..1366,
    1369..1369, 1376..1416, 1488..1514, 1519..1522, 1568..1610, 1632..1641,
    1646..1647, 1649..1747, 1749..1749, 1765..1766, 1774..1788, 1791..1791,
    1808..1808, 1810..1839, 1869..1957, 1969..1969, 1984..2026, 2036..2037,
    2042..2042, 2048..2069, 2074..2074, 2084..2084, 2088..2088, 2112..2136,
    2144..2154, 2160..2183, 2185..2190, 2208..2249, 2308..2361, 2365..2365,
    2384..2384, 2392..2401, 2406..2415, 2417..2432, 2437..2444, 2447..2448,
    2451..2472, 2474..2480, 2482..2482, 2486..2489, 2493..2493, 2510..2510,
    2524..2525, 2527..2529, 2534..2545, 2548..2553, 2556..2556, 2565..2570,
    2575..2576, 2579..2600, 2602..2608, 2610..2611, 2613..2614, 2616..2617,
    2649..2652, 2654..2654, 2662..2671, 2674..2676, 2693..2701, 2703..2705,
    2707..2728, 2730..2736, 2738..2739, 2741..2745, 2749..2749, 2768..2768,
    2784..2785, 2790..2799, 2809..2809, 2821..2828, 2831..2832, 2835..2856,
    2858..2864, 2866..2867, 2869..2873, 2877..2877, 2908..2909, 2911..2913,
    2918..2927, 2929..2935, 2947..2947, 2949..2954, 2958..2960, 2962..2965,
    2969..2970, 2972..2972, 2974..2975, 2979..2980, 2984..2986, 2990..3001,
    3024..3024, 3046..3058, 3077..3084, 3086..3088, 3090..3112, 3114..3129,
    3133..3133, 3160..3162, 3165..3165, 3168..3169, 3174..3183, 3192..3198,
    3200..3200, 3205..3212, 3214..3216, 3218..3240, 3242..3251, 3253..3257,
    3261..3261, 3293..3294, 3296..3297, 3302..3311, 3313..3314, 3332..3340,
    3342..3344, 3346..3386, 3389..3389, 3406..3406, 3412..3414, 3416..3425,
    3430..3448, 3450..3455, 3461..3478, 3482..3505, 3507..3515, 3517..3517,
    3520..3526, 3558..3567, 3585..3632, 3634..3635, 3648..3654, 3664..3673,
    3713..3714, 3716..3716, 3718..3722, 3724..3747, 3749..3749, 3751..3760,
    3762..3763, 3773..3773, 3776..3780, 3782..3782, 3792..3801, 3804..3807,
    3840..3840, 3872..3891, 3904..3911, 3913..3948, 3976..3980, 4096..4138,
    4159..4169, 4176..4181, 4186..4189, 4193..4193, 4197..4198, 4206..4208,
    4213..4225, 4238..4238, 4240..4249, 4256..4293, 4295..4295, 4301..4301,
    4304..4346, 4348..4680, 4682..4685, 4688..4694, 4696..4696, 4698..4701,
    4704..4744, 4746..4749, 4752..4784, 4786..4789, 4792..4798, 4800..4800,
    4802..4805, 4808..4822, 4824..4880, 4882..4885, 4888..4954, 4969..4988,
    4992..5007, 5024..5109, 5112..5117, 5121..5740, 5743..5759, 5761..5786,
    5792..5866, 5870..5880, 5888..5905, 5919..5937, 5952..5969, 5984..5996,
    5998..6000, 6016..6067, 6103..6103, 6108..6108, 6112..6121, 6128..6137,
    6160..6169, 6176..6264, 6272..6276, 6279..6312, 6314..6314, 6320..6389,
    6400..6430, 6470..6509, 6512..6516, 6528..6571, 6576..6601, 6608..6618,
    6656..6678, 6688..6740, 6784..6793, 6800..6809, 6823..6823, 6917..6963,
    6981..6988, 6992..7001, 7043..7072, 7086..7141, 7168..7203, 7232..7241,
    7245..7293, 7296..7304, 7312..7354, 7357..7359, 7401..7404, 7406..7411,
    7413..7414, 7418..7418, 7424..7615, 7680..7957, 7960..7965, 7968..8005,
    8008..8013, 8016..8023, 8025..8025, 8027..8027, 8029..8029, 8031..8061,
    8064..8116, 8118..8124, 8126..8126, 8130..8132, 8134..8140, 8144..8147,
    8150..8155, 8160..8172, 8178..8180, 8182..8188, 8304..8305, 8308..8313,
    8319..8329, 8336..8348, 8450..8450, 8455..8455, 8458..8467, 8469..8469,
    8473..8477, 8484..8484, 8486..8486, 8488..8488, 8490..8493, 8495..8505,
    8508..8511, 8517..8521, 8526..8526, 8528..8585, 9312..9371, 9450..9471,
    10102..10131, 11264..11492, 11499..11502, 11506..11507, 11517..11517,
    11520..11557, 11559..11559, 11565..11565, 11568..11623, 11631..11631,
    11648..11670, 11680..11686, 11688..11694, 11696..11702, 11704..11710,
    11712..11718, 11720..11726, 11728..11734, 11736..11742, 11823..11823,
    12293..12295, 12321..12329, 12337..12341, 12344..12348, 12353..12438,
    12445..12447, 12449..12538, 12540..12543, 12549..12591, 12593..12686,
    12690..12693, 12704..12735, 12784..12799, 12832..12841, 12872..12879,
    12881..12895, 12928..12937, 12977..12991, 13312..19903, 19968..42124,
    42192..42237, 42240..42508, 42512..42539, 42560..42606, 42623..42653,
    42656..42735, 42775..42783, 42786..42888, 42891..42954, 42960..42961,
    42963..42963, 42965..42969, 42994..43009, 43011..43013, 43015..43018,
    43020..43042, 43056..43061, 43072..43123, 43138..43187, 43216..43225,
    43250..43255, 43259..43259, 43261..43262, 43264..43301, 43312..43334,
    43360..43388, 43396..43442, 43471..43481, 43488..43492, 43494..43518,
    43520..43560, 43584..43586, 43588..43595, 43600..43609, 43616..43638,
    43642..43642, 43646..43695, 43697..43697, 43701..43702, 43705..43709,
    43712..43712, 43714..43714, 43739..43741, 43744..43754, 43762..43764,
    43777..43782, 43785..43790, 43793..43798, 43808..43814, 43816..43822,
    43824..43866, 43868..43881, 43888..44002, 44016..44025, 44032..55203,
    55216..55238, 55243..55291, 63744..64109, 64112..64217, 64256..64262,
    64275..64279, 64285..64285, 64287..64296, 64298..64310, 64312..64316,
    64318..64318, 64320..64321, 64323..64324, 64326..64433, 64467..64829,
    64848..64911, 64914..64967, 65008..65019, 65136..65140, 65142..65276,
    65296..65305, 65313..65338, 65345..65370, 65382..65470, 65474..65479,
    65482..65487, 65490..65495, 65498..65500, 65536..65547, 65549..65574,
    65576..65594, 65596..65597, 65599..65613, 65616..65629, 65664..65786,
    65799..65843, 65856..65912, 65930..65931, 66176..66204, 66208..66256,
    66273..66299, 66304..66339, 66349..66378, 66384..66421, 66432..66461,
    66464..66499, 66504..66511, 66513..66517, 66560..66717, 66720..66729,
    66736..66771, 66776..66811, 66816..66855, 66864..66915, 66928..66938,
    66940..66954, 66956..66962, 66964..66965, 66967..66977, 66979..66993,
    66995..67001, 67003..67004, 67072..67382, 67392..67413, 67424..67431,
    67456..67461, 67463..67504, 67506..67514, 67584..67589, 67592..67592,
    67594..67637, 67639..67640, 67644..67644, 67647..67669, 67672..67702,
    67705..67742, 67751..67759, 67808..67826, 67828..67829, 67835..67867,
    67872..67897, 67968..68023, 68028..68047, 68050..68096, 68112..68115,
    68117..68119, 68121..68149, 68160..68168, 68192..68222, 68224..68255,
    68288..68295, 68297..68324, 68331..68335, 68352..68405, 68416..68437,
    68440..68466, 68472..68497, 68521..68527, 68608..68680, 68736..68786,
    68800..68850, 68858..68899, 68912..68921, 69216..69246, 69248..69289,
    69296..69297, 69376..69415, 69424..69445, 69457..69460, 69488..69505,
    69552..69579, 69600..69622, 69635..69687, 69714..69743, 69745..69746,
    69749..69749, 69763..69807, 69840..69864, 69872..69881, 69891..69926,
    69942..69951, 69956..69956, 69959..69959, 69968..70002, 70006..70006,
    70019..70066, 70081..70084, 70096..70106, 70108..70108, 70113..70132,
    70144..70161, 70163..70187, 70272..70278, 70280..70280, 70282..70285,
    70287..70301, 70303..70312, 70320..70366, 70384..70393, 70405..70412,
    70415..70416, 70419..70440, 70442..70448, 70450..70451, 70453..70457,
    70461..70461, 70480..70480, 70493..70497, 70656..70708, 70727..70730,
    70736..70745, 70751..70753, 70784..70831, 70852..70853, 70855..70855,
    70864..70873, 71040..71086, 71128..71131, 71168..71215, 71236..71236,
    71248..71257, 71296..71338, 71352..71352, 71360..71369, 71424..71450,
    71472..71483, 71488..71494, 71680..71723, 71840..71922, 71935..71942,
    71945..71945, 71948..71955, 71957..71958, 71960..71983, 71999..71999,
    72001..72001, 72016..72025, 72096..72103, 72106..72144, 72161..72161,
    72163..72163, 72192..72192, 72203..72242, 72250..72250, 72272..72272,
    72284..72329, 72349..72349, 72368..72440, 72704..72712, 72714..72750,
    72768..72768, 72784..72812, 72818..72847, 72960..72966, 72968..72969,
    72971..73008, 73030..73030, 73040..73049, 73056..73061, 73063..73064,
    73066..73097, 73112..73112, 73120..73129, 73440..73458, 73648..73648,
    73664..73684, 73728..74649, 74752..74862, 74880..75075, 77712..77808,
    77824..78894, 82944..83526, 92160..92728, 92736..92766, 92768..92777,
    92784..92862, 92864..92873, 92880..92909, 92928..92975, 92992..92995,
    93008..93017, 93019..93025, 93027..93047, 93053..93071, 93760..93846,
    93952..94026, 94032..94032, 94099..94111, 94176..94177, 94179..94179,
    94208..100343, 100352..101589, 101632..101640, 110576..110579,
    110581..110587, 110589..110590, 110592..110882, 110928..110930,
    110948..110951, 110960..111355, 113664..113770, 113776..113788,
    113792..113800, 113808..113817, 119520..119539, 119648..119672,
    119808..119892, 119894..119964, 119966..119967, 119970..119970,
    119973..119974, 119977..119980, 119982..119993, 119995..119995,
    119997..120003, 120005..120069, 120071..120074, 120077..120084,
    120086..120092, 120094..120121, 120123..120126, 120128..120132,
    120134..120134, 120138..120144, 120146..120485, 120488..120512,
    120514..120538, 120540..120570, 120572..120596, 120598..120628,
    120630..120654, 120656..120686, 120688..120712, 120714..120744,
    120746..120770, 120772..120779, 120782..120831, 122624..122654,
    123136..123180, 123191..123197, 123200..123209, 123214..123214,
    123536..123565, 123584..123627, 123632..123641, 124896..124902,
    124904..124907, 124909..124910, 124912..124926, 124928..125124,
    125127..125135, 125184..125251, 125259..125259, 125264..125273,
    126065..126123, 126125..126127, 126129..126132, 126209..126253,
    126255..126269, 126464..126467, 126469..126495, 126497..126498,
    126500..126500, 126503..126503, 126505..126514, 126516..126519,
    126521..126521, 126523..126523, 126530..126530, 126535..126535,
    126537..126537, 126539..126539, 126541..126543, 126545..126546,
    126548..126548, 126551..126551, 126553..126553, 126555..126555,
    126557..126557, 126559..126559, 126561..126562, 126564..126564,
    126567..126570, 126572..126578, 126580..126583, 126585..126588,
    126590..126590, 126592..126601, 126603..126619, 126625..126627,
    126629..126633, 126635..126651, 127232..127244, 130032..130041,
    131072..173791, 173824..177976, 177984..178205, 178208..183969,
    183984..191456, 194560..195101, 196608..201546 }

\* the cased characters (lower case, upper case or title case)
CASED ==
  UNION {
    65..90, 97..122, 170..170, 181..181, 186..186, 192..214, 216..246,
    248..442, 444..447, 452..659, 661..696, 704..705, 736..740, 837..837,
    880..883, 886..887, 890..893, 895..895, 902..902, 904..906, 908..908,
    910..929, 931..1013, 1015..1153, 1162..1327, 1329..1366, 1376..1416,
    4256..4293, 4295..4295, 4301..4301, 4304..4346, 4349..4351, 5024..5109,
    5112..5117, 7296..7304, 7312..7354, 7357..7359, 7424..7615, 7680..7957,
    7960..7965, 7968..8005, 8008..8013, 8016..8023, 8025..8025, 8027..8027,
    8029..8029, 8031..8061, 8064..8116, 8118..8124, 8126..8126, 8130..8132,
    8134..8140, 8144..8147, 8150..8155, 8160..8172, 8178..8180, 8182..8188,
    8305..8305, 8319..8319, 8336..8348, 8450..8450, 8455..8455, 8458..8467,
    8469..8469, 8473..8477, 8484..8484, 8486..8486, 8488..8488, 8490..8493,
    8495..8500, 8505..8505, 8508..8511, 8517..8521, 8526..8526, 8544..8575,
    8579..8580, 9398..9449, 11264..11492, 11499..11502, 11506..11507,
    11520..11557, 11559..11559, 11565..11565, 42560..42605, 42624..42653,
    42786..42887, 42891..42894, 42896..42954, 42960..42961, 42963..42963,
    42965..42969, 42997..42998, 43000..43002, 43824..43866, 43868..43880,
    43888..43967, 64256..64262, 64275..64279, 65313..65338, 65345..65370,
    66560..66639, 66736..66771, 66776..66811, 66928..66938, 66940..66954,
    66956..66962, 66964..66965, 66967..66977, 66979..66993, 66995..67001,
    67003..67004, 67456..67456, 67459..67461, 67463..67504, 67506..67514,
    68736..68786, 68800..68850, 71840..71903, 93760..93823, 119808..119892,
    119894..119964, 119966..119967, 119970..119970, 119973..119974,
    119977..119980, 119982..119993, 119995..119995, 119997..120003,
    120005..120069, 120071..120074, 120077..120084, 120086..120092,
    120094..120121, 120123..120126, 120128..120132, 120134..120134,
    120138..120144, 120146..120485, 120488..120512, 120514..120538,
    120540..120570, 120572..120596, 120598..120628, 120630..120654,
    120656..120686, 120688..120712, 120714..120744, 120746..120770,
    120772..120779, 122624..122633, 122635..122654, 125184..125251,
    127280..127305, 127312..127337, 127344..127369 }

\* the characters str.lower() looks through around a capital sigma
CASE_IGNORABLE ==
  UNION {
    39..39, 46..46, 58..58, 94..94, 96..96, 168..168, 173..173, 175..175,
    180..180, 183..184, 688..879, 884..885, 890..890, 900..901, 903..903,
    1155..1161, 1369..1369, 1375..1375, 1425..1469, 1471..1471, 1473..1474,
    1476..1477, 1479..1479, 1524..1524, 1536..1541, 1552..1562, 1564..1564,
    1600..1600, 1611..1631, 1648..1648, 1750..1757, 1759..1768, 1770..1773,
    1807..1807, 1809..1809, 1840..1866, 1958..1968, 2027..2037, 2042..2042,
    2045..2045, 2070..2093, 2137..2139, 2184..2184, 2192..2193, 2200..2207,
    2249..2306, 2362..2362, 2364..2364, 2369..2376, 2381..2381, 2385..2391,
    2402..2403, 2417..2417, 2433..2433, 2492..2492, 2497..2500, 2509..2509,
    2530..2531, 2558..2558, 2561..2562, 2620..2620, 2625..2626, 2631..2632,
    2635..2637, 2641..2641, 2672..2673, 2677..2677, 2689..2690, 2748..2748,
    2753..2757, 2759..2760, 2765..2765, 2786..2787, 2810..2815, 2817..2817,
    2876..2876, 2879..2879, 2881..2884, 2893..2893, 2901..2902, 2914..2915,
    2946..2946, 3008..3008, 3021..3021, 3072..3072, 3076..3076, 3132..3132,
    3134..3136, 3142..3144, 3146..3149, 3157..3158, 3170..3171, 3201..3201,
    3260..3260, 3263..3263, 3270..3270, 3276..3277, 3298..3299, 3328..3329,
    3387..3388, 3393..3396, 3405..3405, 3426..3427, 3457..3457, 3530..3530,
    3538..3540, 3542..3542, 3633..3633, 3636..3642, 3654..3662, 3761..3761,
    3764..3772, 3782..3782, 3784..3789, 3864..3865, 3893..3893, 3895..3895,
    3897..3897, 3953..3966, 3968..3972, 3974..3975, 3981..3991, 3993..4028,
    4038..4038, 4141..4144, 4146..4151, 4153..4154, 4157..4158, 4184..4185,
    4190..4192, 4209..4212, 4226..4226, 4229..4230, 4237..4237, 4253..4253,
    4348..4348, 4957..4959, 5906..5908, 5938..5939, 5970..5971, 6002..6003,
    6068..6069, 6071..6077, 6086..6086, 6089..6099, 6103..6103, 6109..6109,
    6155..6159, 6211..6211, 6277..6278, 6313..6313, 6432..6434, 6439..6440,
    6450..6450, 6457..6459, 6679..6680, 6683..6683, 6742..6742, 6744..6750,
    6752..6752, 6754..6754, 6757..6764, 6771..6780, 6783..6783, 6823..6823,
    6832..6862, 6912..6915, 6964..6964, 6966..6970, 6972..6972, 6978..6978,
    7019..7027, 7040..7041, 7074..7077, 7080..7081, 7083..7085, 7142..7142,
    7144..7145, 7149..7149, 7151..7153, 7212..7219, 7222..7223, 7288..7293,
    7376..7378, 7380..7392, 7394..7400, 7405..7405, 7412..7412, 7416..7417,
    7468..7530, 7544..7544, 7579..7679, 8125..8125, 8127..8129, 8141..8143,
    8157..8159, 8173..8175, 8189..8190, 8203..8207, 8216..8217, 8228..8228,
    8231..8231, 8234..8238, 8288..8292, 8294..8303, 8305..8305, 8319..8319,
    8336..8348, 8400..8432, 11388..11389, 11503..11505, 11631..11631,
    11647..11647, 11744..11775, 11823..11823, 12293..12293, 12330..12333,
    12337..12341, 12347..12347, 12441..12446, 12540..12542, 40981..40981,
    42232..42237, 42508..42508, 42607..42610, 42612..42621, 42623..42623,
    42652..42655, 42736..42737, 42752..42785, 42864..42864, 42888..42890,
    42994..42996, 43000..43001, 43010..43010, 43014..43014, 43019..43019,
    43045..43046, 43052..43052, 43204..43205, 43232..43249, 43263..43263,
    43302..43309, 43335..43345, 43392..43394, 43443..43443, 43446..43449,
    43452..43453, 43471..43471, 43493..43494, 43561..43566, 43569..43570,
    43573..43574, 43587..43587, 43596..43596, 43632..43632, 43644..43644,
    43696..43696, 43698..43700, 43703..43704, 43710..43711, 43713..43713,
    43741..43741, 43756..43757, 43763..43764, 43766..43766, 43867..43871,
    43881..43883, 44005..44005, 44008..44008, 44013..44013, 64286..64286,
    64434..64450, 65024..65039, 65043..65043, 65056..65071, 65106..65106,
    65109..65109, 65279..65279, 65287..65287, 65294..65294, 65306..65306,
    65342..65342, 65344..65344, 65392..65392, 65438..65439, 65507..65507,
    65529..65531, 66045..66045, 66272..66272, 66422..66426, 67456..67461,
    67463..67504, 67506..67514, 68097..68099, 68101..68102, 68108..68111,
    68152..68154, 68159..68159, 68325..68326, 68900..68903, 69291..69292,
    69446..69456, 69506..69509, 69633..69633, 69688..69702, 69744..69744,
    69747..69748, 69759..69761, 69811..69814, 69817..69818, 69821..69821,
    69826..69826, 69837..69837, 69888..69890, 69927..69931, 69933..69940,
    70003..70003, 70016..70017, 70070..70078, 70089..70092, 70095..70095,
    70191..70193, 70196..70196, 70198..70199, 70206..70206, 70367..70367,
    70371..70378, 70400..70401, 70459..70460, 70464..70464, 70502..70508,
    70512..70516, 70712..70719, 70722..70724, 70726..70726, 70750..70750,
    70835..70840, 70842..70842, 70847..70848, 70850..70851, 71090..71093,
    71100..71101, 71103..71104, 71132..71133, 71219..71226, 71229..71229,
    71231..71232, 71339..71339, 71341..71341, 71344..71349, 71351..71351,
    71453..71455, 71458..71461, 71463..71467, 71727..71735, 71737..71738,
    71995..71996, 71998..71998, 72003..72003, 72148..72151, 72154..72155,
    72160..72160, 72193..72202, 72243..72248, 72251..72254, 72263..72263,
    72273..72278, 72281..72283, 72330..72342, 72344..72345, 72752..72758,
    72760..72765, 72767..72767, 72850..72871, 72874..72880, 72882..72883,
    72885..72886, 73009..73014, 73018..73018, 73020..73021, 73023..73029,
    73031..73031, 73104..73105, 73109..73109, 73111..73111, 73459..73460,
    78896..78904, 92912..92916, 92976..92982, 92992..92995, 94031..94031,
    94095..94111, 94176..94177, 94179..94180, 110576..110579, 110581..110587,
    110589..110590, 113821..113822, 113824..113827, 118528..118573,
    118576..118598, 119143..119145, 119155..119170, 119173..119179,
    119210..119213, 119362..119364, 121344..121398, 121403..121452,
    121461..121461, 121476..121476, 121499..121503, 121505..121519,
    122880..122886, 122888..122904, 122907..122913, 122915..122916,
    122918..122922, 123184..123197, 123566..123566, 123628..123631,
    125136..125142, 125252..125259, 127995..127999, 917505..917505,
    917536..917631, 917760..917999 }

\* the characters str.lower() changes, one to one, in runs <<first, last,
\* step, offset>>: first, first + step, ... last become themselves + offset
LOWER_RUNS ==
  {
    <<65, 90, 1, 32>>, <<192, 214, 1, 32>>, <<216, 222, 1, 32>>,
    <<256, 302, 2, 1>>, <<306, 310, 2, 1>>, <<313, 327, 2, 1>>,
    <<330, 374, 2, 1>>, <<376, 376, 1, -121>>, <<377, 381, 2, 1>>,
    <<385, 385, 1, 210>>, <<386, 388, 2, 1>>, <<390, 390, 1, 206>>,
    <<391, 391, 1, 1>>, <<393, 394, 1, 205>>, <<395, 395, 1, 1>>,
    <<398, 398, 1, 79>>, <<399, 399, 1, 202>>, <<400, 400, 1, 203>>,
    <<401, 401, 1, 1>>, <<403, 403, 1, 205>>, <<404, 404, 1, 207>>,
    <<406, 406, 1, 211>>, <<407, 407, 1, 209>>, <<408, 408, 1, 1>>,
    <<412, 412, 1, 211>>, <<413, 413, 1, 213>>, <<415, 415, 1, 214>>,
    <<416, 420, 2, 1>>, <<422, 422, 1, 218>>, <<423, 423, 1, 1>>,
    <<425, 425, 1, 218>>, <<428, 428, 1, 1>>, <<430, 430, 1, 218>>,
    <<431, 431, 1, 1>>, <<433, 434, 1, 217>>, <<435, 437, 2, 1>>,
    <<439, 439, 1, 219>>, <<440, 440, 1, 1>>, <<444, 444, 1, 1>>,
    <<452, 452, 1, 2>>, <<453, 453, 1, 1>>, <<455, 455, 1, 2>>,
    <<456, 456, 1, 1>>, <<458, 458, 1, 2>>, <<459, 475, 2, 1>>,
    <<478, 494, 2, 1>>, <<497, 497, 1, 2>>, <<498, 500, 2, 1>>,
    <<502, 502, 1, -97>>, <<503, 503, 1, -56>>, <<504, 542, 2, 1>>,
    <<544, 544, 1, -130>>, <<546, 562, 2, 1>>, <<570, 570, 1, 10795>>,
    <<571, 571, 1, 1>>, <<573, 573, 1, -163>>, <<574, 574, 1, 10792>>,
    <<577, 577, 1, 1>>, <<579, 579, 1, -195>>, <<580, 580, 1, 69>>,
    <<581, 581, 1, 71>>, <<582, 590, 2, 1>>, <<880, 882, 2, 1>>,
    <<886, 886, 1, 1>>, <<895, 895, 1, 116>>, <<902, 902, 1, 38>>,
    <<904, 906, 1, 37>>, <<908, 908, 1, 64>>, <<910, 911, 1, 63>>,
    <<913, 929, 1, 32>>, <<931, 939, 1, 32>>, <<975, 975, 1, 8>>,
    <<984, 1006, 2, 1>>, <<1012, 1012, 1, -60>>, <<1015, 1015, 1, 1>>,
    <<1017, 1017, 1, -7>>, <<1018, 1018, 1, 1>>, <<1021, 1023, 1, -130>>,
    <<1024, 1039, 1, 80>>, <<1040, 1071, 1, 32>>, <<1120, 1152, 2, 1>>,
    <<1162, 1214, 2, 1>>, <<1216, 1216, 1, 15>>, <<1217, 1229, 2, 1>>,
    <<1232, 1326, 2, 1>>, <<1329, 1366, 1, 48>>, <<4256, 4293, 1, 7264>>,
    <<4295, 4295, 1, 7264>>, <<4301, 4301, 1, 7264>>,
    <<5024, 5103, 1, 38864>>, <<5104, 5109, 1, 8>>, <<7312, 7354, 1, -3008>>,
    <<7357, 7359, 1, -3008>>, <<7680, 7828, 2, 1>>, <<7838, 7838, 1, -7615>>,
    <<7840, 7934, 2, 1>>, <<7944, 7951, 1, -8>>, <<7960, 7965, 1, -8>>,
    <<7976, 7983, 1, -8>>, <<7992, 7999, 1, -8>>, <<8008, 8013, 1, -8>>,
    <<8025, 8031, 2, -8>>, <<8040, 8047, 1, -8>>, <<8072, 8079, 1, -8>>,
    <<8088, 8095, 1, -8>>, <<8104, 8111, 1, -8>>, <<8120, 8121, 1, -8>>,
    <<8122, 8123, 1, -74>>, <<8124, 8124, 1, -9>>, <<8136, 8139, 1, -86>>,
    <<8140, 8140, 1, -9>>, <<8152, 8153, 1, -8>>, <<8154, 8155, 1, -100>>,
    <<8168, 8169, 1, -8>>, <<8170, 8171, 1, -112>>, <<8172, 8172, 1, -7>>,
    <<8184, 8185, 1, -128>>, <<8186, 8187, 1, -126>>, <<8188, 8188, 1, -9>>,
    <<8486, 8486, 1, -7517>>, <<8490, 8490, 1, -8383>>,
    <<8491, 8491, 1, -8262>>, <<8498, 8498, 1, 28>>, <<8544, 8559, 1, 16>>,
    <<8579, 8579, 1, 1>>, <<9398, 9423, 1, 26>>, <<11264, 11311, 1, 48>>,
    <<11360, 11360, 1, 1>>, <<11362, 11362, 1, -10743>>,
    <<11363, 11363, 1, -3814>>, <<11364, 11364, 1, -10727>>,
    <<11367, 11371, 2, 1>>, <<11373, 11373, 1, -10780>>,
    <<11374, 11374, 1, -10749>>, <<11375, 11375, 1, -10783>>,
    <<11376, 11376, 1, -10782>>, <<11378, 11378, 1, 1>>,
    <<11381, 11381, 1, 1>>, <<11390, 11391, 1, -10815>>,
    <<11392, 11490, 2, 1>>, <<11499, 11501, 2, 1>>, <<11506, 11506, 1, 1>>,
    <<42560, 42604, 2, 1>>, <<42624, 42650, 2, 1>>, <<42786, 42798, 2, 1>>,
    <<42802, 42862, 2, 1>>, <<42873, 42875, 2, 1>>,
    <<42877, 42877, 1, -35332>>, <<42878, 42886, 2, 1>>,
    <<42891, 42891, 1, 1>>, <<42893, 42893, 1, -42280>>,
    <<42896, 42898, 2, 1>>, <<42902, 42920, 2, 1>>,
    <<42922, 42922, 1, -42308>>, <<42923, 42923, 1, -42319>>,
    <<42924, 42924, 1, -42315>>, <<42925, 42925, 1, -42305>>,
    <<42926, 42926, 1, -42308>>, <<42928, 42928, 1, -42258>>,
    <<42929, 42929, 1, -42282>>, <<42930, 42930, 1, -42261>>,
    <<42931, 42931, 1, 928>>, <<42932, 42946, 2, 1>>,
    <<42948, 42948, 1, -48>>, <<42949, 42949, 1, -42307>>,
    <<42950, 42950, 1, -35384>>, <<42951, 42953, 2, 1>>,
    <<42960, 42960, 1, 1>>, <<42966, 42968, 2, 1>>, <<42997, 42997, 1, 1>>,
    <<65313, 65338, 1, 32>>, <<66560, 66599, 1, 40>>,
    <<66736, 66771, 1, 40>>, <<66928, 66938, 1, 39>>,
    <<66940, 66954, 1, 39>>, <<66956, 66962, 1, 39>>,
    <<66964, 66965, 1, 39>>, <<68736, 68786, 1, 64>>,
    <<71840, 71871, 1, 32>>, <<93760, 93791, 1, 32>>,
    <<125184, 125217, 1, 34>> }

\* the characters str.lower() changes, one to one
UPPERCASE ==
  UNION {{c \in r[1]..r[2] : (c - r[1]) % r[3] = 0} : r \in LOWER_RUNS}

PUNCT_PATTERN == Str(<<"-", "/", "(", ")", ":", ".", ",", ";">>)

Range(s) == {s[i] : i \in DOMAIN s}

\* str.maketrans(PUNCT_PATTERN, " " * len(PUNCT_PATTERN)) applied to one character
punct_remover(c) == IF c \in Range(PUNCT_PATTERN) THEN Ord[" "] ELSE c

\* sum(lists, [])
RECURSIVE Concat(_)
Concat(lists) ==
  IF lists = <<>> THEN <<>> ELSE Head(lists) \o Concat(Tail(lists))

\* str.lower() as a map of the characters it changes, one to one
LowerMap ==
  [c \in UPPERCASE |->
     LET r == CHOOSE r \in LOWER_RUNS :
                c \in r[1]..r[2] /\ (c - r[1]) % r[3] = 0
     IN  c + r[4]]

\* str.lower() on the one-character string of c, when it is one character
LowerChar(c) == IF c \in DOMAIN LowerMap THEN LowerMap[c] ELSE c

\* the capital sigma at x[i] is final: the nearest character before it that
\* is not case-ignorable is cased, and the nearest one after it, if any, is
\* not cased
FinalSigma(x, i) ==
  LET before == {j \in 1..(i - 1) : x[j] \notin CASE_IGNORABLE}
      after == {j \in (i + 1)..Len(x) : x[j] \notin CASE_IGNORABLE}
  IN  /\ before # {}
      /\ x[CHOOSE j \in before : \A k \in before : k <= j] \in CASED
      /\ \/ after = {}
         \/ x[CHOOSE j \in after : \A k \in after : j <= k] \notin CASED

\* x.lower(): U+0130 becomes the two characters "i", U+0307; U+03A3 becomes
\* U+03C2 where it is final and U+03C3 elsewhere
Lower(x) ==
  Concat([i \in 1..Len(x) |->
            IF x[i] = 304 THEN <<Ord["i"], 775>>
            ELSE IF x[i] = 931 THEN <<IF FinalSigma(x, i) THEN 962 ELSE 963>>
            ELSE <<LowerChar(x[i])>>])

\* x.translate(punct_remover)
Translate(x) == [i \in 1..Len(x) |-> punct_remover(x[i])]

\* x.split(): the maximal runs of non-whitespace characters, left to right
RECURSIVE SplitFrom(_, _, _)
SplitFrom(x, i, cur) ==
  IF i > Len(x)
  THEN IF cur = <<>> THEN <<>> ELSE <<cur>>
  ELSE IF x[i] \in WHITESPACE
       THEN (IF cur = <<>> THEN <<>> ELSE <<cur>>) \o SplitFrom(x, i + 1, <<>>)
       ELSE SplitFrom(x, i + 1, Append(cur, x[i]))

Split(x) == SplitFrom(x, 1, <<>>)

\* re.search(r"\d", y) finds something
HasDigit(y) == \E i \in 1..Len(y) : y[i] \in DIGITS

KeepWord(y) == y # <<>> /\ ~HasDigit(y)

\* mutant: the filter on digits left out
words_from_values_nofilter(values) ==
  Concat([k \in 1..Len(values) |-> Split(Translate(Lower(values[k])))])

\* mutant: the punctuation replaced in the tokens, after the split
words_from_values_translate_last(values) ==
  SelectSeq(Concat([k \in 1..Len(values) |->
                      LET tokens == Split(Lower(values[k]))
                      IN  [i \in 1..Len(tokens) |-> Translate(tokens[i])]]),
            KeepWord)

\* def words_from_values(values)
words_from_values(values) ==
  SelectSeq(Concat([k \in 1..Len(values) |-> Split(Translate(Lower(values[k])))]),
            KeepWord)

\* an element of np.array(values): numpy returns a string of the array
\* without its trailing U+0000
RECURSIVE StripNul(_)
StripNul(x) ==
  IF x # <<>> /\ x[Len(x)] = 0 THEN StripNul(SubSeq(x, 1, Len(x) - 1)) ELSE x

\* np.array(row['values']), as the strings the cells read from it
np_array(values) == [k \in 1..Len(values) |-> StripNul(values[k])]

\* words = []; for obj in data: words.extend(words_from_values(obj['values']))
get_words(data) ==
  Concat([k \in 1..Len(data) |-> words_from_values(data[k].values)])

-----------------------------------------------------------------------------
(* Exact rationals standing for Python floats *)

Abs(n) == IF n < 0 THEN -n ELSE n

RECURSIVE GCD(_, _)
GCD(a, b) == IF b = 0 THEN a ELSE GCD(b, a % b)

\* n / d in lowest terms, d # 0
Rat(n, d) ==
  LET g == GCD(Abs(n), Abs(d))
      s == IF d < 0 THEN -1 ELSE 1
  IN  <<(s * n) \div g, (s * d) \div g>>

\* the sum, over the least common denominator
RAdd(a, b) ==
  LET g == GCD(a[2], b[2])
  IN  Rat(a[1] * (b[2] \div g) + b[1] * (a[2] \div g), (a[2] \div g) * b[2])

RSub(a, b) == RAdd(a, <<-b[1], b[2]>>)

\* the product, the common factors cancelled first
RMul(a, b) ==
  LET g1 == GCD(Abs(a[1]), b[2])
      g2 == GCD(Abs(b[1]), a[2])
  IN  Rat((a[1] \div g1) * (b[1] \div g2), (a[2] \div g2) * (b[2] \div g1))

\* the quotient, b # 0
RDiv(a, b) == RMul(a, IF b[1] < 0 THEN <<-b[2], -b[1]>> ELSE <<b[2], b[1]>>)
RLe(a, b) == a[1] * b[2] <= b[1] * a[2]
RLt(a, b) == a[1] * b[2] < b[1] * a[2]

Zero == Rat(0, 1)
One == Rat(1, 1)
\* np.nan: no rational
nan == <<0, 0>>

RECURSIVE RSum(_)
RSum(ws) == IF ws = <<>> THEN Zero ELSE RAdd(Head(ws), RSum(Tail(ws)))

-----------------------------------------------------------------------------
(* Cell 2: word popularity *)

\* Counter(words)[x]
Count(words, x) == Cardinality({i \in DOMAIN words : words[i] = x})

\* mutant: the counts divided by the number of distinct words
words_counter_distinct(data) ==
  LET words == get_words(data)
  IN  [x \in Range(words) |-> Rat(Count(words, x), Cardinality(Range(words)))]

\* {x: y / len(words) for x, y in Counter(words).items()}: no item, no division
words_counter(data) ==
  LET words == get_words(data)
  IN  [x \in Range(words) |-> Rat(Count(words, x), Len(words))]

\* mutant: the division by len(words) made once, before the comprehension
WordsCounterRaises_eager(data) == Len(get_words(data)) = 0

\* y / len(words) is evaluated once per item of Counter(words): it raises
\* ZeroDivisionError when there is an item and len(words) is 0
WordsCounterRaises(data) ==
  LET words == get_words(data)
  IN  \E x \in Range(words) : Len(words) = 0

\* d.get(word, 0)
Get(d, word) == IF word \in DOMAIN d THEN d[word] ELSE Zero

-----------------------------------------------------------------------------
(* Cell 8: first features of one row *)

\* x.replace('.', '', 1)
RECURSIVE Replace1From(_, _)
Replace1From(x, i) ==
  IF i > Len(x) THEN x
  ELSE IF x[i] = Ord["."] THEN SubSeq(x, 1, i - 1) \o SubSeq(x, i + 1, Len(x))
       ELSE Replace1From(x, i + 1)

Replace1(x) == Replace1From(x, 1)

\* str.isdigit()
IsDigit(x) == x # <<>> /\ \A i \in 1..Len(x) : x[i] \in ISDIGIT

\* lambda x: x.replace('.', '', 1).isdigit() and '.' in x
is_float(x) == IsDigit(Replace1(x)) /\ Ord["."] \in Range(x)

\* lambda x: x.replace('.', '', 1).isdigit() and len(x) > 4
is_long_int(x) == IsDigit(Replace1(x)) /\ Len(x) > 4

\* (values == '').sum() / len(values)
Sparsity(values) ==
  Rat(Cardinality({k \in 1..Len(values) : values[k] = <<>>}), Len(values))

\* sum(np.vectorize(...)(values)) / len(values)
FloatsN(values) ==
  Rat(Cardinality({k \in 1..Len(values) : is_float(values[k])}), Len(values))

LongInts(values) ==
  Rat(Cardinality({k \in 1..Len(values) : is_long_int(values[k])}), Len(values))

-----------------------------------------------------------------------------
(* Cell 13: word weights *)

\* mutant: the difference taken the other way round
Weight_swapped(h, o) == RDiv(RSub(o, h), RAdd(h, o))

\* (h - o) / (h + o), ZeroDivisionError when h + o = 0
Weight(h, o) == RDiv(RSub(h, o), RAdd(h, o))

WeightRaises(hw, ow, words) ==
  \E word \in words : RAdd(Get(hw, word), Get(ow, word)) = Zero

-----------------------------------------------------------------------------
(* Cell 14: aggregates of the word weights of one row *)

\* [word_weights.get(word, 0) for word in words_from_values(values)]
RowWeights(ww, values) ==
  LET words == words_from_values(values)
  IN  [k \in 1..Len(words) |-> Get(ww, words[k])]

\* ndarray.mean()
Mean(ws) == RDiv(RSum(ws), Rat(Len(ws), 1))

\* ndarray.max()
Max(ws) == CHOOSE m \in Range(ws) : \A w \in Range(ws) : RLe(w, m)

\* ndarray.std(): the square root of the mean squared deviation (ddof = 0)
Std(ws) ==
  LET m == Mean(ws)
      sq == [k \in 1..Len(ws) |-> RMul(RSub(ws[k], m), RSub(ws[k], m))]
  IN  [sqrt |-> Mean(sq)]

WeightsMean(ww, values) ==
  LET ws == RowWeights(ww, values) IN IF Len(ws) > 0 THEN Mean(ws) ELSE nan

WeightsMax(ww, values) ==
  LET ws == RowWeights(ww, values) IN IF Len(ws) > 0 THEN Max(ws) ELSE nan

WeightsStd(ww, values) ==
  LET ws == RowWeights(ww, values) IN IF Len(ws) > 0 THEN Std(ws) ELSE [sqrt |-> nan]

-----------------------------------------------------------------------------
(* Cell 15: date patterns *)

\* ' '.join(values)
RECURSIVE Join(_)
Join(values) ==
  IF values = <<>> THEN <<>>
  ELSE IF Len(values) = 1 THEN Head(values)
       ELSE Head(values) \o <<Ord[" "]>> \o Join(Tail(values))

\* \b at the gap before position i of s (i in 1..Len(s)+1)
WordBoundary(s, i) ==
  LET before == i > 1 /\ s[i - 1] \in WORDCHARS
      after == i <= Len(s) /\ s[i] \in WORDCHARS
  IN  before # after

\* YEAR_PATTERN = r"\b(19|20)\d{2}\b" matches at position i
YearAt(s, i) ==
  /\ i + 3 <= Len(s)
  /\ WordBoundary(s, i)
  /\ \/ s[i] = Ord["1"] /\ s[i + 1] = Ord["9"]
     \/ s[i] = Ord["2"] /\ s[i + 1] = Ord["0"]
  /\ s[i + 2] \in DIGITS
  /\ s[i + 3] \in DIGITS
  /\ WordBoundary(s, i + 4)

\* DDMM_PATTERN = r"\d{2}/\d{2}" matches at position i
DdmmAt(s, i) ==
  /\ i + 4 <= Len(s)
  /\ s[i] \in DIGITS
  /\ s[i + 1] \in DIGITS
  /\ s[i + 2] = Ord["/"]
  /\ s[i + 3] \in DIGITS
  /\ s[i + 4] \in DIGITS

\* len(re.findall(pattern, s)): leftmost matches that do not overlap
RECURSIVE FindAllYearsFrom(_, _)
FindAllYearsFrom(s, i) ==
  IF i > Len(s) THEN 0
  ELSE IF YearAt(s, i) THEN 1 + FindAllYearsFrom(s, i + 4)
       ELSE FindAllYearsFrom(s, i + 1)

RECURSIVE FindAllDdmmFrom(_, _)
FindAllDdmmFrom(s, i) ==
  IF i > Len(s) THEN 0
  ELSE IF DdmmAt(s, i) THEN 1 + FindAllDdmmFrom(s, i + 5)
       ELSE FindAllDdmmFrom(s, i + 1)

FindAllYears(s) == FindAllYearsFrom(s, 1)
FindAllDdmm(s) == FindAllDdmmFrom(s, 1)

YearsN(values) ==
  LET string == Join(values)
  IN  IF Len(string) > 0 THEN Rat(FindAllYears(string), Len(string)) ELSE nan

DdmmN(values) ==
  LET string == Join(values)
  IN  IF Len(string) > 0 THEN Rat(FindAllDdmm(string), Len(string)) ELSE nan

-----------------------------------------------------------------------------
(* Cells 16 and 19: the split and the accuracies *)

\* sklearn's n_test = ceil(test_size * n_samples) with test_size = 0.2
NTest(n) == (n + 4) \div 5

\* A float64 between 0 and 1 is [mant |-> m, exp |-> e]: m the 53 bits of
\* its significand, the most significant first, and the value the integer
\* they spell times 2^-e; 0.0 has 53 zero bits and exp 0, 1.0 is a one and
\* 52 zero bits with exp 52.
Zeros(n) == [i \in 1..n |-> 0]

F64Zero == [mant |-> Zeros(53), exp |-> 0]

F64One == [mant |-> <<1>> \o Zeros(52), exp |-> 52]

\* the least s with a * 2^s >= b, 0 < a <= b
RECURSIVE Shift(_, _)
Shift(a, b) == IF a >= b THEN 0 ELSE 1 + Shift(2 * a, b)

RECURSIVE Pow2(_)
Pow2(n) == IF n = 0 THEN 1 ELSE 2 * Pow2(n - 1)

\* the first n binary digits of r / b after the point, r < b, and after them
\* the remainder
RECURSIVE DivBits(_, _, _)
DivBits(r, b, n) ==
  IF n = 0 THEN <<r>>
  ELSE LET bit == IF 2 * r >= b THEN 1 ELSE 0
       IN  <<bit>> \o DivBits(2 * r - bit * b, b, n - 1)

\* bits + 1, the carry out of the first bit dropped
RECURSIVE Inc(_)
Inc(bits) ==
  IF bits = <<>> THEN <<>>
  ELSE IF bits[Len(bits)] = 0
       THEN SubSeq(bits, 1, Len(bits) - 1) \o <<1>>
       ELSE Inc(SubSeq(bits, 1, Len(bits) - 1)) \o <<0>>

\* round to nearest, ties to even: bits are the first 53 bits of a value
\* bits * 2^-e + (less than one unit), round the next bit, sticky whether
\* anything follows it
F64Round(bits, round, sticky, e) ==
  IF round = 1 /\ (sticky \/ bits[53] = 1)
  THEN IF bits = [i \in 1..53 |-> 1]
       THEN [mant |-> <<1>> \o Zeros(52), exp |-> e - 1]
       ELSE [mant |-> Inc(bits), exp |-> e]
  ELSE [mant |-> bits, exp |-> e]

\* a / b in float64 for integers 0 <= a <= b, 0 < b: the quotient rounded once
F64Div(a, b) ==
  IF a = 0 THEN F64Zero
  ELSE LET s == Shift(a, b)
           d == DivBits(a * Pow2(s) - b, b, 52)
           round == IF 2 * d[53] >= b THEN 1 ELSE 0
       IN  F64Round(<<1>> \o SubSeq(d, 1, 52), round,
                    2 * d[53] - round * b # 0, 52 + s)

\* bits without its leading zeros
RECURSIVE StripZeros(_)
StripZeros(bits) ==
  IF bits # <<>> /\ bits[1] = 0 THEN StripZeros(Tail(bits)) ELSE bits

\* 1 - x in float64 for a float64 x between 0 and 1: the difference, exact
\* in x.exp bits, rounded to 53
F64OneMinus(x) ==
  IF x = F64Zero THEN F64One
  ELSE IF x = F64One THEN F64Zero
  ELSE LET m == Zeros(x.exp - 53) \o x.mant
           d == StripZeros(Inc([i \in 1..Len(m) |-> 1 - m[i]]))
           n == Len(d)
       IN  IF n <= 53
           THEN [mant |-> d \o Zeros(53 - n), exp |-> x.exp + (53 - n)]
           ELSE F64Round(SubSeq(d, 1, 53), d[54],
                         \E i \in 55..n : d[i] = 1, x.exp - (n - 53))

\* sklearn.metrics.accuracy_score: the share of positions where the two
\* agree, np.average of the comparisons, a float64
accuracy_score(y_true, y_hat) ==
  F64Div(Cardinality({i \in DOMAIN y_true : y_true[i] = y_hat[i]}),
         Cardinality(DOMAIN y_true))

-----------------------------------------------------------------------------
(* The inputs: value strings, rows, samples *)

s_empty == <<>>
s_Name == Str(<<"N", "a", "m", "e">>)
s_Age == Str(<<"A", "g", "e">>)
s_1990 == Str(<<"1", "9", "9", "0">>)
s_John == Str(<<"J", "o", "h", "n">>)
s_34 == Str(<<"3", "4">>)
s_name == Str(<<"n", "a", "m", "e">>)
s_12345 == Str(<<"1", "2", "3", "4", "5">>)
s_123_4 == Str(<<"1", "2", "3", ".", "4">>)
s_1_5 == Str(<<"1", ".", "5">>)
s_Report_1999_2001 == Str(<<"R", "e", "p", "o", "r", "t", " ", "1", "9", "9", "9", " ", "2", "0", "0", "1">>)
s_12_05_other == Str(<<"1", "2", "/", "0", "5", " ", "o", "t", "h", "e", "r">>)
s_12_34_56 == Str(<<"1", "2", "/", "3", "4", "/", "5", "6">>)
s_a1999 == Str(<<"a", "1", "9", "9", "9">>)
\* "Total", a no-break space, "\u00c9t\u00e9"
s_Total_Ete == Str(<<"T", "o", "t", "a", "l">>) \o <<160, 201>> \o Str(<<"t">>) \o <<233>>
\* the Greek capitals of "odos": the last sigma is final
s_ODOS == <<927, 916, 927, 931>>
\* 12/05 in Extended Arabic-Indic digits, 19 and two fullwidth nines
s_12_05_arabic == <<1777, 1778>> \o Str(<<"/">>) \o <<1776, 1781>>
s_19_fullwidth == Str(<<"1", "9">>) \o <<65305, 65305>>
\* a superscript two, circled ones: str.isdigit() accepts them, \d does not
s_sup_5 == <<178>> \o Str(<<".", "5">>)
s_circled11111 == <<9312, 9312, 9312, 9312, 9312>>
\* a Cyrillic capital before 1999
s_Zhe1999 == <<1046>> \o Str(<<"1", "9", "9", "9">>)

\* values that end in U+0000 (JSON "\u0000")
s_nul == <<0>>
s_name_nul == Str(<<"n", "a", "m", "e">>) \o <<0>>
s_12345_nul == Str(<<"1", "2", "3", "4", "5">>) \o <<0>>

\* the values lists a sampled row is drawn from
RowValues ==
  { <<s_Name, s_Age, s_1990>>,
    <<s_Total_Ete, s_12_05_arabic, s_19_fullwidth, s_sup_5, s_ODOS>>,
    <<s_name, s_name, s_Age>>,
    <<s_Report_1999_2001>>,
    <<s_12_05_other>>,
    <<>>,
    <<s_empty>>,
    <<s_empty, s_12345>>,
    <<s_123_4>>,
    <<s_1_5, s_circled11111, s_Age>>,
    <<s_12_34_56, s_a1999, s_Zhe1999>>,
    <<s_nul>>,
    <<s_name_nul, s_12345_nul>> }

\* a row after cell 6: {'values': [...], 'type': x['type'] == 'HEADERS'}
Rows == [values : RowValues, type : BOOLEAN]

\* the number of rows of data_sampled (the notebook's sample_sz, scaled down)
sample_sz == 2

\* the sample of the run that checks the accuracies: one values list, any labels
EvalRows == [values : {<<s_Name>>}, type : BOOLEAN]

\* the least sample with test sets of three rows
eval_sample_sz == 11

\* the characters and the length of the strings the tokenizer is called on
TokChars == {Ord["B"], Ord["1"], Ord["-"], Ord[" "]}

MaxStrLen == 3

TokStrings == UNION {[1..n -> TokChars] : n \in 0..MaxStrLen}

\* "b", "." and characters beyond ASCII: a Cyrillic capital, a no-break
\* space, a decimal digit (U+06F5), a circled digit, the capital that lowers
\* to two characters, the capital sigma
UniChars == {Ord["b"], Ord["."], 1046, 160, 1781, 9312, 304, 931}

UniStrings == UNION {[1..n -> UniChars] : n \in 0..MaxStrLen}

-----------------------------------------------------------------------------
(* The notebook's cells, from cell 8 on *)

unset == <<>>

NoColumns == [c \in {} |-> <<>>]

\* cell 8: y, sparsity, floats_N, long_ints, size; a row with no values raises
\* (np.vectorize on a size 0 input, or .sum() of the scalar an older numpy
\* returns for the comparison of an empty float array with '')
FirstFeatures ==
  /\ pc = "first_features"
  /\ error = "none"
  /\ IF \E k \in 1..Len(data_sampled) : Len(data_sampled[k].values) = 0
     THEN /\ pc' = pc
          /\ error' \in {"AttributeError", "ValueError"}
          /\ df' = df
     ELSE /\ pc' = "split_types"
          /\ error' = error
          /\ df' = df @@
               [c \in {"y", "sparsity", "floats_N", "long_ints", "size"} |->
                  [k \in 1..Len(data_sampled) |->
                     CASE c = "y" -> data_sampled[k].type
                       [] c = "sparsity" -> Sparsity(np_array(data_sampled[k].values))
                       [] c = "floats_N" -> FloatsN(np_array(data_sampled[k].values))
                       [] c = "long_ints" -> LongInts(np_array(data_sampled[k].values))
                       [] c = "size" -> Len(data_sampled[k].values)]]
  /\ UNCHANGED <<data_sampled, data_headers, data_others, header_words,
                 other_words, all_words, word_weights, test_idx, y_pred,
                 acc, acc_fake, tok_vars, load_vars>>

IsHeader(x) == x.type

\* mutant: the filter of data_headers copied to data_others
IsOther_copied(x) == x.type

IsOther(x) == ~x.type

\* cell 9
SplitTypes ==
  /\ pc = "split_types"
  /\ error = "none"
  /\ data_headers' = SelectSeq(data_sampled, IsHeader)
  /\ data_others' = SelectSeq(data_sampled, IsOther)
  /\ pc' = "header_words"
  /\ UNCHANGED <<error, data_sampled, df, header_words, other_words,
                 all_words, word_weights, test_idx, y_pred, acc, acc_fake,
                 tok_vars, load_vars>>

\* cell 10
HeaderWords ==
  /\ pc = "header_words"
  /\ error = "none"
  /\ IF WordsCounterRaises(data_headers)
     THEN /\ pc' = pc
          /\ error' = "ZeroDivisionError"
          /\ header_words' = header_words
     ELSE /\ pc' = "other_words"
          /\ error' = error
          /\ header_words' = words_counter(data_headers)
  /\ UNCHANGED <<data_sampled, df, data_headers, data_others,
                 other_words, all_words, word_weights, test_idx, y_pred,
                 acc, acc_fake, tok_vars, load_vars>>

\* cell 11
OtherWords ==
  /\ pc = "other_words"
  /\ error = "none"
  /\ IF WordsCounterRaises(data_others)
     THEN /\ pc' = pc
          /\ error' = "ZeroDivisionError"
          /\ other_words' = other_words
     ELSE /\ pc' = "all_words"
          /\ error' = error
          /\ other_words' = words_counter(data_others)
  /\ UNCHANGED <<data_sampled, df, data_headers, data_others,
                 header_words, all_words, word_weights, test_idx, y_pred,
                 acc, acc_fake, tok_vars, load_vars>>

\* cell 12
AllWords ==
  /\ pc = "all_words"
  /\ error = "none"
  /\ all_words' = Range(get_words(data_sampled))
  /\ pc' = "word_weights"
  /\ UNCHANGED <<error, data_sampled, df, data_headers, data_others,
                 header_words, other_words, word_weights, test_idx, y_pred,
                 acc, acc_fake, tok_vars, load_vars>>

\* cell 13: word_weights = {} filled word by word, in the order the set
\* all_words is walked; a word with h + o = 0 raises and leaves the entries
\* of the words walked before it
WordWeights ==
  /\ pc = "word_weights"
  /\ error = "none"
  /\ IF WeightRaises(header_words, other_words, all_words)
     THEN /\ pc' = pc
          /\ error' = "ZeroDivisionError"
          /\ \E walked \in SUBSET {word \in all_words :
                  RAdd(Get(header_words, word), Get(other_words, word)) # Zero} :
                word_weights' =
                  [word \in walked |->
                     Weight(Get(header_words, word), Get(other_words, word))]
     ELSE /\ pc' = "weights_agg"
          /\ error' = error
          /\ word_weights' =
               [word \in all_words |->
                  Weight(Get(header_words, word), Get(other_words, word))]
  /\ UNCHANGED <<data_sampled, df, data_headers, data_others, header_words,
                 other_words, all_words, test_idx, y_pred, acc, acc_fake,
                 tok_vars, load_vars>>

\* cell 14: the weights are looked up for the tokens of np.array(values)
WeightsAgg ==
  /\ pc = "weights_agg"
  /\ error = "none"
  /\ df' = df @@
       [c \in {"word_weights_mean", "word_weights_max", "word_weights_std"} |->
          [k \in 1..Len(data_sampled) |->
             CASE c = "word_weights_mean" ->
                    WeightsMean(word_weights, np_array(data_sampled[k].values))
               [] c = "word_weights_max" ->
                    WeightsMax(word_weights, np_array(data_sampled[k].values))
               [] c = "word_weights_std" ->
                    WeightsStd(word_weights, np_array(data_sampled[k].values))]]
  /\ pc' = "date_patterns"
  /\ UNCHANGED <<error, data_sampled, data_headers, data_others,
                 header_words, other_words, all_words, word_weights,
                 test_idx, y_pred, acc, acc_fake, tok_vars, load_vars>>

\* cell 15: the values joined are those of np.array(values)
DatePatterns ==
  /\ pc = "date_patterns"
  /\ error = "none"
  /\ df' = df @@
       [c \in {"years_N", "ddmm_N"} |->
          [k \in 1..Len(data_sampled) |->
             CASE c = "years_N" -> YearsN(np_array(data_sampled[k].values))
               [] c = "ddmm_N" -> DdmmN(np_array(data_sampled[k].values))]]
  /\ pc' = "train_test_split"
  /\ UNCHANGED <<error, data_sampled, data_headers, data_others,
                 header_words, other_words, all_words, word_weights,
                 test_idx, y_pred, acc, acc_fake, tok_vars, load_vars>>

\* cell 16: the rows of X_test and y_test; the shuffle of random_state=42 is
\* some choice of NTest(n) of the n rows, and an empty train set raises
TrainTestSplit ==
  /\ pc = "train_test_split"
  /\ error = "none"
  /\ LET n == Len(df["y"])
     IN  IF n - NTest(n) = 0
         THEN /\ pc' = pc
              /\ error' = "ValueError"
              /\ test_idx' = test_idx
         ELSE /\ pc' = "fit"
              /\ error' = error
              /\ test_idx' \in {T \in SUBSET (1..n) : Cardinality(T) = NTest(n)}
  /\ UNCHANGED <<data_sampled, df, data_headers, data_others, header_words,
                 other_words, all_words, word_weights, y_pred, acc, acc_fake,
                 tok_vars, load_vars>>

\* cell 17: clf.fit(X_train, y_train)
Fit ==
  /\ pc = "fit"
  /\ error = "none"
  /\ pc' = "predict"
  /\ UNCHANGED <<error, data_sampled, df, data_headers, data_others,
                 header_words, other_words, all_words, word_weights,
                 test_idx, y_pred, acc, acc_fake, tok_vars, load_vars>>

\* cell 18: y_pred = clf.predict(X_test), whatever the fitted trees answer
Predict ==
  /\ pc = "predict"
  /\ error = "none"
  /\ y_pred' \in [test_idx -> BOOLEAN]
  /\ pc' = "accuracy"
  /\ UNCHANGED <<error, data_sampled, df, data_headers, data_others,
                 header_words, other_words, all_words, word_weights,
                 test_idx, acc, acc_fake, tok_vars, load_vars>>

y_test == [i \in test_idx |-> df["y"][i]]

\* mutant: the dummy predicts a header for every row
AllTrue == [i \in test_idx |-> TRUE]

\* [False] * len(y_test)
AllFalse == [i \in test_idx |-> FALSE]

\* cell 19
Accuracy ==
  /\ pc = "accuracy"
  /\ error = "none"
  /\ acc' = accuracy_score(y_test, y_pred)
  /\ acc_fake' = accuracy_score(y_test, AllFalse)
  /\ pc' = "done"
  /\ UNCHANGED <<error, data_sampled, df, data_headers, data_others,
                 header_words, other_words, all_words, word_weights,
                 test_idx, y_pred, tok_vars, load_vars>>

Next ==
  \/ FirstFeatures
  \/ SplitTypes
  \/ HeaderWords
  \/ OtherWords
  \/ AllWords
  \/ WordWeights
  \/ WeightsAgg
  \/ DatePatterns
  \/ TrainTestSplit
  \/ Fit
  \/ Predict
  \/ Accuracy

InitCells ==
  /\ pc = "first_features"
  /\ error = "none"
  /\ df = NoColumns
  /\ data_headers = unset
  /\ data_others = unset
  /\ header_words = unset
  /\ other_words = unset
  /\ all_words = {}
  /\ word_weights = unset
  /\ test_idx = {}
  /\ y_pred = unset
  /\ acc = unset
  /\ acc_fake = unset

\* cells 3 and 4 are not part of a run that starts from the sample
NotLoaded ==
  /\ input_lines = <<>>
  /\ data_json = <<>>
  /\ data_all = <<>>

TokIdle ==
  /\ tok_pc = "idle"
  /\ tok_values = <<>>
  /\ tok_words = <<>>
  /\ tok_rewords = <<>>

\* the state after cell 6: a sample of sample_sz simplified rows
Init ==
  /\ data_sampled \in [1..sample_sz -> Rows]
  /\ InitCells
  /\ TokIdle
  /\ NotLoaded

Spec == Init /\ [][Next]_vars

\* the headers of the sample come first, any number of them; the split
\* takes any rows
InitEval ==
  /\ data_sampled \in [1..eval_sample_sz -> EvalRows]
  /\ \A k \in 1..(eval_sample_sz - 1) :
        data_sampled[k + 1].type => data_sampled[k].type
  /\ InitCells
  /\ TokIdle
  /\ NotLoaded

SpecEval == InitEval /\ [][Next]_vars

-----------------------------------------------------------------------------
(* words_from_values called on its own, and on its own output *)

Tokenize ==
  /\ tok_pc = "call"
  /\ tok_words' = words_from_values(tok_values)
  /\ tok_pc' = "returned"
  /\ UNCHANGED <<tok_values, tok_rewords, pipeline_vars, load_vars>>

Retokenize ==
  /\ tok_pc = "returned"
  /\ tok_rewords' = words_from_values(tok_words)
  /\ tok_pc' = "retokenized"
  /\ UNCHANGED <<tok_values, tok_words, pipeline_vars, load_vars>>

NextTok == Tokenize \/ Retokenize

InitTok ==
  /\ tok_pc = "call"
  /\ \/ \E n \in {0, 1, 2} : tok_values \in [1..n -> TokStrings]
     \/ tok_values \in [1..1 -> UniStrings]
  /\ tok_words = <<>>
  /\ tok_rewords = <<>>
  /\ data_sampled = <<>>
  /\ InitCells
  /\ NotLoaded

SpecTok == InitTok /\ [][NextTok]_vars

-----------------------------------------------------------------------------
(* Cells 3 to 6: reading, concatenation, sampling, simplification *)

\* a line of the file that json.loads rejects
NotJson == [json |-> FALSE]

\* the objects of a line: two with both fields, one with no 'type', one with
\* no 'values'
RawObjects ==
  { [values |-> <<[value |-> s_Name], [value |-> s_Age]>>, type |-> "HEADERS"],
    [values |-> <<[value |-> s_John], [value |-> s_34]>>, type |-> "OTHER"],
    [values |-> <<[value |-> s_Age]>>],
    [type |-> "HEADERS"] }

\* the most objects in one line, and the most lines in the file
MaxObjects == 2

MaxLines == 2

\* a line: text that is not JSON, or the JSON text of a list of objects
Lines ==
  {NotJson} \cup
  UNION {[json : {TRUE}, value : [1..n -> RawObjects]] : n \in 0..MaxObjects}

\* json.loads(x): raises JSONDecodeError on text that is not JSON
JsonRaises(x) == ~x.json

json_loads(x) == x.value

\* x['values'] or x['type'] raises KeyError
LacksField(x) == "values" \notin DOMAIN x \/ "type" \notin DOMAIN x

\* {'values': [x['value'] for x in x['values']], 'type': x['type'] == 'HEADERS'}
Simplified(x) ==
  [values |-> [i \in 1..Len(x.values) |-> x.values[i].value],
   type |-> x.type = "HEADERS"]

\* cell 3: data = [json.loads(x) for x in f.readlines()]
ReadData ==
  /\ pc = "read_data"
  /\ error = "none"
  /\ IF \E k \in 1..Len(input_lines) : JsonRaises(input_lines[k])
     THEN /\ pc' = pc
          /\ error' = "JSONDecodeError"
          /\ data_json' = data_json
     ELSE /\ pc' = "concat_rows"
          /\ error' = error
          /\ data_json' =
               [k \in 1..Len(input_lines) |-> json_loads(input_lines[k])]
  /\ UNCHANGED <<input_lines, data_all, data_sampled, df, data_headers,
                 data_others, header_words, other_words, all_words,
                 word_weights, test_idx, y_pred, acc, acc_fake, tok_vars>>

\* cell 4: for row in data: data_all.extend(row)
ConcatRows ==
  /\ pc = "concat_rows"
  /\ error = "none"
  /\ data_all' = Concat(data_json)
  /\ pc' = "sample"
  /\ UNCHANGED <<error, input_lines, data_json, data_sampled, df,
                 data_headers, data_others, header_words, other_words,
                 all_words, word_weights, test_idx, y_pred, acc, acc_fake,
                 tok_vars>>

\* the ways to draw size places out of n without replacement, in any order
Draws(n, size) ==
  {idx \in [1..size -> 1..n] : \A i, j \in 1..size : i # j => idx[i] # idx[j]}

\* cell 5: np.random.choice(data_all, size=sample_sz, replace=False), not
\* seeded; a population smaller than the sample raises ValueError
Sample ==
  /\ pc = "sample"
  /\ error = "none"
  /\ IF Len(data_all) < sample_sz
     THEN /\ pc' = pc
          /\ error' = "ValueError"
          /\ data_sampled' = data_sampled
     ELSE /\ pc' = "simplify"
          /\ error' = error
          /\ \E idx \in Draws(Len(data_all), sample_sz) :
                data_sampled' = [k \in 1..sample_sz |-> data_all[idx[k]]]
  /\ UNCHANGED <<input_lines, data_json, data_all, df, data_headers,
                 data_others, header_words, other_words, all_words,
                 word_weights, test_idx, y_pred, acc, acc_fake, tok_vars>>

\* cell 6: the sampled objects simplified; a sampled object with no 'values'
\* or no 'type' raises KeyError
Simplify ==
  /\ pc = "simplify"
  /\ error = "none"
  /\ IF \E k \in 1..Len(data_sampled) : LacksField(data_sampled[k])
     THEN /\ pc' = pc
          /\ error' = "KeyError"
          /\ data_sampled' = data_sampled
     ELSE /\ pc' = "first_features"
          /\ error' = error
          /\ data_sampled' =
               [k \in 1..Len(data_sampled) |-> Simplified(data_sampled[k])]
  /\ UNCHANGED <<input_lines, data_json, data_all, df, data_headers,
                 data_others, header_words, other_words, all_words,
                 word_weights, test_idx, y_pred, acc, acc_fake, tok_vars>>

NextLoad ==
  \/ ReadData
  \/ ConcatRows
  \/ Sample
  \/ Simplify
  \/ Next

\* the state before cell 3: a file of at most MaxLines lines
InitLoad ==
  /\ \E n \in 0..MaxLines : input_lines \in [1..n -> Lines]
  /\ pc = "read_data"
  /\ error = "none"
  /\ data_json = unset
  /\ data_all = unset
  /\ data_sampled = unset
  /\ df = NoColumns
  /\ data_headers = unset
  /\ data_others = unset
  /\ header_words = unset
  /\ other_words = unset
  /\ all_words = {}
  /\ word_weights = unset
  /\ test_idx = {}
  /\ y_pred = unset
  /\ acc = unset
  /\ acc_fake = unset
  /\ TokIdle

SpecLoad == InitLoad /\ [][NextLoad]_vars

-----------------------------------------------------------------------------
(* Which cells have run *)

Cells == <<"read_data", "concat_rows", "sample", "simplify",
           "first_features", "split_types", "header_words", "other_words",
           "all_words", "word_weights", "weights_agg", "date_patterns",
           "train_test_split", "fit", "predict", "accuracy", "done">>

CellNo(p) == CHOOSE i \in 1..Len(Cells) : Cells[i] = p

\* cell p has run to its end: pc is the cell that runs next, or the cell that
\* raised
HasRun(p) == CellNo(pc) > CellNo(p)

RECURSIVE SumOver(_, _)
SumOver(m, D) ==
  IF D = {} THEN Zero
  ELSE LET x == CHOOSE x \in D : TRUE IN RAdd(m[x], SumOver(m, D \ {x}))

\* the sum of the values of a map
MapSum(m) == SumOver(m, DOMAIN m)

InUnit(q) == RLe(Zero, q) /\ RLe(q, One)

-----------------------------------------------------------------------------
(* C1: word popularity *)

PopularitySumsToOne(m) == MapSum(m) = One /\ \A x \in DOMAIN m : InUnit(m[x])

\* C1 as claimed: the values of the word popularity map of a partition that
\* has at least one row sum to 1, each of them in [0,1].
C1_SumOneIfRows ==
  /\ HasRun("header_words") /\ Len(data_headers) > 0
       => PopularitySumsToOne(header_words)
  /\ HasRun("other_words") /\ Len(data_others) > 0
       => PopularitySumsToOne(other_words)

PopularityOfTokens(m, data) ==
  LET words == get_words(data)
      sum == MapSum(m)
  IN  /\ DOMAIN m = Range(words)
      /\ \A x \in DOMAIN m : InUnit(m[x]) /\ m[x] # Zero
      /\ sum = IF words # <<>> THEN One ELSE Zero

\* C1 as amended: the word popularity map has one entry per distinct token
\* of the partition, each in (0,1]; its values sum to 1 whenever the
\* partition yields at least one token, and it is the empty map (sum 0) when
\* the partition yields none, rows or no rows.
C1_SumOneIfTokens ==
  /\ HasRun("header_words") => PopularityOfTokens(header_words, data_headers)
  /\ HasRun("other_words") => PopularityOfTokens(other_words, data_others)

\* a header partition whose rows repeat a word among several
C1_Witness ==
  /\ HasRun("other_words")
  /\ Cardinality(DOMAIN header_words) >= 2
  /\ \E x \in DOMAIN header_words : header_words[x] = Rat(2, 3)
  /\ Len(data_others) > 0 /\ other_words = <<>>

-----------------------------------------------------------------------------
(* C2: word weights *)

MinusOne == Rat(-1, 1)

\* the words of the sampled rows of one type
WordsOfType(type) ==
  UNION {Range(words_from_values(data_sampled[k].values)) :
           k \in {k \in 1..Len(data_sampled) : data_sampled[k].type = type}}

\* C2: every weight of the word weight map lies in [-1,1], is 1 exactly for
\* the words of header rows only and -1 exactly for the words of non-header
\* rows only.
C2_WeightRange ==
  HasRun("word_weights") =>
    LET in_headers == WordsOfType(TRUE)
        in_others == WordsOfType(FALSE)
    IN  \A word \in DOMAIN word_weights :
          LET w == word_weights[word]
          IN  /\ RLe(MinusOne, w) /\ RLe(w, One)
              /\ w = One <=> word \in in_headers \ in_others
              /\ w = MinusOne <=> word \in in_others \ in_headers

\* a word of the headers only beside a word of both partitions
C2_Witness ==
  /\ HasRun("word_weights")
  /\ \E x, y \in DOMAIN word_weights :
       /\ word_weights[x] = One
       /\ RLt(MinusOne, word_weights[y]) /\ RLt(word_weights[y], Zero)

-----------------------------------------------------------------------------
(* C3, C4: the tokenizer *)

Separator(c) == c \in WHITESPACE \/ c \in Range(PUNCT_PATTERN)

\* the maximal runs <<i, j>> of characters of x that are no separators
Runs(x) ==
  {r \in (1..Len(x)) \X (1..Len(x)) :
     /\ r[1] <= r[2]
     /\ \A i \in r[1]..r[2] : ~Separator(x[i])
     /\ r[1] = 1 \/ Separator(x[r[1] - 1])
     /\ r[2] = Len(x) \/ Separator(x[r[2] + 1])}

\* the runs of x from left to right
RunsInOrder(x) ==
  [k \in 1..Cardinality(Runs(x)) |->
     LET r == CHOOSE r \in Runs(x) :
                Cardinality({q \in Runs(x) : q[1] < r[1]}) = k - 1
     IN  SubSeq(x, r[1], r[2])]

NoDigit(y) == \A i \in 1..Len(y) : y[i] \notin DIGITS

\* C3: words_from_values returns the digit-free runs of non-separator
\* characters of the lower-cased values, value after value and left to right
\* within a value, a repeated word as often as it occurs; no token is empty or holds
\* a digit or a character of PUNCT_PATTERN; no values, no tokens.
C3_Tokens ==
  tok_pc # "call" =>
    /\ \A k \in 1..Len(tok_words) :
         /\ tok_words[k] # <<>>
         /\ \A i \in 1..Len(tok_words[k]) :
              /\ tok_words[k][i] \notin DIGITS
              /\ tok_words[k][i] \notin Range(PUNCT_PATTERN)
    /\ tok_words =
         SelectSeq(Concat([k \in 1..Len(tok_values) |->
                             RunsInOrder(Lower(tok_values[k]))]),
                   NoDigit)
    /\ tok_values = <<>> => tok_words = <<>>

\* a word kept twice and in lower case, from values with punctuation and
\* with a digit
C3_Witness ==
  /\ tok_pc = "returned"
  /\ tok_words = <<Str(<<"b">>), Str(<<"b">>)>>
  /\ \E k \in 1..Len(tok_values) : Ord["1"] \in Range(tok_values[k])
  /\ \E k \in 1..Len(tok_values) : Ord["-"] \in Range(tok_values[k])

\* C4: the tokenizer applied to its own output returns that output.
C4_Idempotent == tok_pc = "retokenized" => tok_rewords = tok_words

\* values that needed lowering, splitting and filtering, tokenized twice
C4_Witness ==
  /\ tok_pc = "retokenized"
  /\ Len(tok_words) >= 2
  /\ tok_words # tok_values
  /\ \E k \in 1..Len(tok_values) :
       /\ Ord["B"] \in Range(tok_values[k])
       /\ Ord["-"] \in Range(tok_values[k])
       /\ Ord["1"] \in Range(tok_values[k])

-----------------------------------------------------------------------------
(* C5, C6, C7: the first features *)

\* C5 as claimed: for every row with at least one value, sparsity, floats_N
\* and long_ints lie in [0,1], and sparsity is 1 exactly when every value of
\* the row is the empty string.
C5_RatiosInUnit ==
  HasRun("first_features") =>
    \A k \in 1..Len(data_sampled) :
      LET values == data_sampled[k].values
      IN  Len(values) > 0 =>
            /\ InUnit(df["sparsity"][k])
            /\ InUnit(df["floats_N"][k])
            /\ InUnit(df["long_ints"][k])
            /\ df["sparsity"][k] = One
                 <=> \A i \in 1..Len(values) : values[i] = <<>>

\* an all-digit string, a digit being what str.isdigit() accepts
AllDigits(x) == Len(x) > 0 /\ \A i \in 1..Len(x) : x[i] \in ISDIGIT

\* C6 as claimed: long_ints is the share of the row's values that are
\* all-digit strings of more than 4 characters, so that a value with a
\* decimal point is never counted.
C6_LongIntsAllDigit ==
  HasRun("first_features") =>
    \A k \in 1..Len(data_sampled) :
      LET values == data_sampled[k].values
      IN  df["long_ints"][k] =
            Rat(Cardinality({i \in 1..Len(values) :
                               AllDigits(values[i]) /\ Len(values[i]) > 4}),
                Len(values))

\* C7 as claimed: no feature cell raises, a row with no values included:
\* every division by a length is guarded and yields the sentinel.
C7_NeverRaises == error = "none"

-----------------------------------------------------------------------------
(* C8: the aggregates of the word weights *)

Sq(q) == RMul(q, q)

\* C8 as claimed: the mean, max and std of a row are the sentinel exactly
\* when the row's values yield no token; otherwise they are the mean, the
\* greatest and the standard deviation (the root of the mean squared
\* deviation) of the weights of the row's tokens, 0 for a token the map does
\* not hold.
C8_WeightAggregates ==
  HasRun("weights_agg") =>
    \A k \in 1..Len(data_sampled) :
      LET tokens == words_from_values(data_sampled[k].values)
          n == Len(tokens)
          ws == [i \in 1..n |->
                   IF tokens[i] \in DOMAIN word_weights
                   THEN word_weights[tokens[i]] ELSE Zero]
          mean == df["word_weights_mean"][k]
          max == df["word_weights_max"][k]
          std == df["word_weights_std"][k]
      IN  /\ mean = nan <=> n = 0
          /\ max = nan <=> n = 0
          /\ std.sqrt = nan <=> n = 0
          /\ n > 0 =>
               /\ RMul(mean, Rat(n, 1)) = RSum(ws)
               /\ max \in Range(ws) /\ \A w \in Range(ws) : RLe(w, max)
               /\ RMul(std.sqrt, Rat(n, 1)) =
                    RSum([i \in 1..n |-> Sq(RSub(ws[i], mean))])

-----------------------------------------------------------------------------
(* C9: the date patterns *)

\* "19" or "20" and two digits
YearString(y) ==
  /\ SubSeq(y, 1, 2) \in {Str(<<"1", "9">>), Str(<<"2", "0">>)}
  /\ y[3] \in DIGITS
  /\ y[4] \in DIGITS

NotInWord(s, i) == i < 1 \/ i > Len(s) \/ s[i] \notin WORDCHARS

\* where a year stands in s as a word of its own
YearPlaces(s) ==
  {i \in 1..(Len(s) - 3) :
     /\ YearString(SubSeq(s, i, i + 3))
     /\ NotInWord(s, i - 1)
     /\ NotInWord(s, i + 4)}

\* where two digits, a slash and two digits stand in s
DdmmPlaces(s) ==
  {i \in 1..(Len(s) - 4) :
     /\ {s[i], s[i + 1], s[i + 3], s[i + 4]} \subseteq DIGITS
     /\ s[i + 2] = Ord["/"]}

Disjoint(Q, width) == \A i, j \in Q : i < j => i + width <= j

\* the most matches of one width that fit side by side
MostMatches(P, width) ==
  CHOOSE n \in 0..Cardinality(P) :
    /\ \E Q \in SUBSET P : Disjoint(Q, width) /\ Cardinality(Q) = n
    /\ \A Q \in SUBSET P : Disjoint(Q, width) => Cardinality(Q) <= n

\* C9 as claimed: years_N and ddmm_N of a row are the sentinel exactly when
\* the space-joined string of its values is empty; otherwise each is the number
\* of matches of its pattern in that string divided by the string's length;
\* "Report 1999 2001" has 2 year matches, "12/05 other" has 1 ddmm match.
C9_DateDensities ==
  HasRun("date_patterns") =>
    \A k \in 1..Len(data_sampled) :
      LET string == Join(data_sampled[k].values)
          years == df["years_N"][k]
          ddmm == df["ddmm_N"][k]
      IN  /\ years = nan <=> string = <<>>
          /\ ddmm = nan <=> string = <<>>
          /\ string # <<>> =>
               /\ years = Rat(MostMatches(YearPlaces(string), 4), Len(string))
               /\ ddmm = Rat(MostMatches(DdmmPlaces(string), 5), Len(string))
          /\ string = s_Report_1999_2001 => years = Rat(2, 16)
          /\ string = s_12_05_other => ddmm = Rat(1, 11)

-----------------------------------------------------------------------------
(* C10: the dummy baseline *)

HeadersInTest == {i \in test_idx : data_sampled[i].type}

\* C10 as claimed: the accuracy of predicting no header for every test row
\* is exactly 1 - p, p the share of the test rows that are headers.
C10_DummyAccuracy ==
  pc = "done" =>
    acc_fake = F64OneMinus(F64Div(Cardinality(HeadersInTest),
                                  Cardinality(test_idx)))

\* C10 amended: the accuracy of predicting no header for every test row is
\* the float64 nearest to (n - k) / n, k of the n test rows being headers:
\* the number 1 - p rounded once, which is the float64 difference 1 - p
\* where p is 0 or 1.
C10_DummyAccuracyRounded ==
  pc = "done" =>
    /\ acc_fake = F64Div(Cardinality(test_idx) - Cardinality(HeadersInTest),
                         Cardinality(test_idx))
    /\ Cardinality(HeadersInTest) \in {0, Cardinality(test_idx)}
          => acc_fake = F64OneMinus(F64Div(Cardinality(HeadersInTest),
                                           Cardinality(test_idx)))

\* a test set of three rows, one of them a header: 2/3 in float64 is not
\* 1 - 1/3 in float64
C10_Witness ==
  /\ pc = "done"
  /\ error = "none"
  /\ Cardinality(test_idx) = 3
  /\ Cardinality(HeadersInTest) = 1
  /\ acc_fake = F64Div(2, 3)
  /\ acc_fake # F64OneMinus(F64Div(1, 3))

-----------------------------------------------------------------------------
\* C12 as claimed: when the partition a popularity cell counts yields zero
\* tokens, words_counter divides by zero: the cell raises ZeroDivisionError
\* and returns no map.
C12_ZeroTokensDivide ==
  [][/\ (pc = "header_words" /\ get_words(data_headers) = <<>>)
          => error' = "ZeroDivisionError"
     /\ (pc = "other_words" /\ get_words(data_others) = <<>>)
          => error' = "ZeroDivisionError"]_vars

\* C12 amended: when the partition yields zero tokens (no rows, or only rows
\* whose values tokenize to nothing), words_counter performs no division: the
\* cell runs to its end and the map it returns is the empty map.
C12_ZeroTokensEmptyMap ==
  [][/\ (pc = "header_words" /\ get_words(data_headers) = <<>>)
          => (pc' = "other_words" /\ error' = error
              /\ DOMAIN header_words' = {})
     /\ (pc = "other_words" /\ get_words(data_others) = <<>>)
          => (pc' = "all_words" /\ error' = error
              /\ DOMAIN other_words' = {})]_vars

\* both popularity cells have run, on a partition of no rows and on a
\* partition of rows that hold no token
C12_Witness ==
  /\ pc = "all_words"
  /\ error = "none"
  /\ Len(data_headers) = 0
  /\ Len(data_others) > 0
  /\ get_words(data_others) = <<>>
  /\ DOMAIN header_words = {}
  /\ DOMAIN other_words = {}

-----------------------------------------------------------------------------
\* C13: every word of all_words has a header popularity plus other
\* popularity greater than 0, so the weight loop never divides 0 by 0 (no
\* ZeroDivisionError in the run), and once the loop has run every token of
\* every sampled row has an entry in word_weights.
C13_WeightsDefined ==
  /\ HasRun("all_words") =>
        \A word \in all_words :
           RLt(Zero, RAdd(Get(header_words, word), Get(other_words, word)))
  /\ error # "ZeroDivisionError"
  /\ HasRun("word_weights") =>
        /\ DOMAIN word_weights = all_words
        /\ \A k \in 1..Len(data_sampled) :
              Range(words_from_values(data_sampled[k].values))
                 \subseteq DOMAIN word_weights

\* the weight loop has run over a word only header rows hold and a word only
\* other rows hold
C13_Witness ==
  /\ pc = "weights_agg"
  /\ error = "none"
  /\ \E word \in all_words : word \notin DOMAIN other_words
  /\ \E word \in all_words : word \notin DOMAIN header_words
  /\ DOMAIN word_weights = all_words

-----------------------------------------------------------------------------
\* a line that fails JSON parsing, or an object with no 'values' or no 'type'
Malformed(lines) ==
  \E k \in 1..Len(lines) :
     \/ JsonRaises(lines[k])
     \/ \E j \in 1..Len(json_loads(lines[k])) :
           LacksField(json_loads(lines[k])[j])

\* C11 as claimed: a run over a file that holds a malformed line fails: it
\* never gets past the simplification to the feature cells, and prints no
\* metrics.
C11_MalformedFailsRun == Malformed(input_lines) => ~HasRun("simplify")

====
